---- MODULE Spec2Model ----
(***************************************************************************)
(* A model of gregtatum/ml-rs: the MNIST (IDX) dataset loader of           *)
(* src/image_data.rs and the feed-forward network of src/network.rs.       *)
(*                                                                         *)
(* Five specifications share the variables below:                          *)
(*   SpecLoader       the loader run on files drawn from bounded sets      *)
(*   SpecNetwork      Network::new followed by any sequence of run and     *)
(*                    cost                                                 *)
(*   SpecDegenerate   Network::new on parameter combinations with a zero,  *)
(*                    in either build profile, then run and cost           *)
(*   SpecInterleaved  two run passes on one Network, interleaved node by   *)
(*                    node                                                 *)
(*   SpecStringTable  text-embedding's StringTable under any sequence of   *)
(*                    calls                                                *)
(*                                                                         *)
(* Conventions.                                                            *)
(*  - A file is a sequence of bytes (0..255); a path that File::open       *)
(*    cannot open holds NoFile.                                            *)
(*  - The target is 64 bit. A usize is the record [top, off]: the value    *)
(*    off when top is FALSE and 2^64 - off when top is TRUE (off >= 1).    *)
(*    Every usize the loader builds from 32-bit header fields has one of   *)
(*    these two shapes, and the arithmetic below is exact on them.         *)
(*  - A call returns [kind, msg, value]: kind "ok", "err_message",         *)
(*    "err_io" (the two variants of Error) or "panic" (the thread          *)
(*    unwinds; the caller gets no Result at all).                          *)
(*  - Vec allocation of a size that fits isize is taken to succeed.        *)
(***************************************************************************)
EXTENDS Integers, Sequences, FiniteSets, TLC

VARIABLES
    fs,               \* path -> file content or NoFile
    overflow_checks,  \* build profile: TRUE = debug (overflow-checks on)
    labels_ret,       \* what the last read_in_labels call returned
    images_ret,       \* what the last read_in_images call returned
    load_ret,         \* what the last load_in_*_images call returned
    loaded,           \* which split the last load call was for
    net,              \* the Network: images, layers, the four counts
    last_call,        \* the last run/cost call: op, arg, result, trace
    passes,           \* the run passes in flight on net, one record each
    strings,          \* StringTable::strings
    table_call        \* the last StringTable call: op, arg, result

loaderVars == <<fs, overflow_checks, labels_ret, images_ret, load_ret, loaded>>
netVars == <<net, last_call>>
passVars == <<passes>>
tableVars == <<strings, table_call>>
vars == <<fs, overflow_checks, labels_ret, images_ret, load_ret, loaded,
          net, last_call, passes, strings, table_call>>

(***************************************************************************)
(* Bounds of the model.                                                    *)
(***************************************************************************)
MaxCount == 2      \* header item counts range over -1..MaxCount
MaxDim == 2        \* header rows and cols range over -1..MaxDim
MaxPayload == 3    \* most payload bytes after a header

\* Small helpers.
Min(a, b) == IF a < b THEN a ELSE b

NoFile == <<-1>>

NotCalled == [kind |-> "not_called", msg |-> "", value |-> <<>>]

Ok(v) == [kind |-> "ok", msg |-> "", value |-> v]

ErrMessage(m) == [kind |-> "err_message", msg |-> m, value |-> <<>>]

ErrIO(k) == [kind |-> "err_io", msg |-> k, value |-> <<>>]

Panic(m) == [kind |-> "panic", msg |-> m, value |-> <<>>]

MsgImageMagic == "The image data's magic number is not correct."

MsgLabelMagic == "The image data's magic number is not correct."

MsgImageTruncated == "An image being read in was truncated and not the expected length"

MsgLabelLength == "The data read in for labels is not the correct length as stated by the header."

(***************************************************************************)
(* usize arithmetic (64 bit), see the conventions above.                   *)
(***************************************************************************)
\* `v as usize` for an i32 v: sign extension to 64 bits, then reinterpreted.
AsUsize(v) == IF v >= 0 THEN [top |-> FALSE, off |-> v]
                        ELSE [top |-> TRUE, off |-> 0 - v]

\* Does a * b exceed usize::MAX?  (2^64-r)*c >= 2^64 iff c >= 2;
\* (2^64-r)*(2^64-c) always; off*off never (both below 2^32).
MulOverflows(a, b) ==
    CASE a.top /\ b.top -> TRUE
      [] a.top /\ ~b.top -> b.off >= 2
      [] ~a.top /\ b.top -> a.off >= 2
      [] OTHER -> FALSE

\* a * b modulo 2^64.
WrappingMul(a, b) ==
    CASE a.top /\ b.top -> [top |-> FALSE, off |-> a.off * b.off]
      [] a.top /\ ~b.top ->
            IF b.off = 0 THEN [top |-> FALSE, off |-> 0]
                         ELSE [top |-> TRUE, off |-> a.off * b.off]
      [] ~a.top /\ b.top ->
            IF a.off = 0 THEN [top |-> FALSE, off |-> 0]
                         ELSE [top |-> TRUE, off |-> a.off * b.off]
      [] OTHER -> [top |-> FALSE, off |-> a.off * b.off]

\* Vec::with_capacity(n) panics with "capacity overflow" when the byte size
\* exceeds isize::MAX; for the usizes of this model that is n.top.
CapacityOverflow(n) == n.top

\* vec.len() != n, for a length that is an ordinary natural number.
LenDiffers(len, n) == n.top \/ n.off # len

(***************************************************************************)
(* byteorder: big-endian i32.                                              *)
(***************************************************************************)
\* The bytes of v, most significant first (two's complement).
EncodeI32(v) ==
    LET m == IF v >= 0 THEN v ELSE (0 - v) - 1
        b0 == m \div 16777216
        b1 == (m \div 65536) % 256
        b2 == (m \div 256) % 256
        b3 == m % 256
    IN IF v >= 0 THEN <<b0, b1, b2, b3>>
       ELSE <<255 - b0, 255 - b1, 255 - b2, 255 - b3>>

\* i32::from_be_bytes
DecodeI32(b) ==
    (IF b[1] >= 128 THEN b[1] - 256 ELSE b[1]) * 16777216
        + b[2] * 65536 + b[3] * 256 + b[4]

\* file.read_i32::<BigEndian>() at offset pos (0-based): read_exact of 4 bytes.
ReadI32(file, pos) ==
    IF Len(file) - pos < 4 THEN ErrIO("UnexpectedEof")
    ELSE Ok(DecodeI32(SubSeq(file, pos + 1, pos + 4)))

(***************************************************************************)
(* read_in_images                                                          *)
(***************************************************************************)
ImageMagic == 2051

LabelMagic == 2049

\* A slip that would let a label file pass as an image file.
ImageMagicOk_AcceptsLabelMagic(magic) == magic \in {ImageMagic, LabelMagic}

\* The test `magic_number != 2051` of read_in_images, negated.
ImageMagicOk(magic) == magic = ImageMagic

\* The test `magic_number != 2049` of read_in_labels, negated.
LabelMagicOk(magic) == magic = LabelMagic

\* A reader that would refuse bytes after the last image.
RECURSIVE ReadImageLoop_RejectsSurplus(_, _, _, _, _)
ReadImageLoop_RejectsSurplus(file, pos, remaining, bytes_per_image, acc) ==
    IF remaining = 0
    THEN IF pos < Len(file) THEN ErrMessage(MsgImageTruncated) ELSE Ok(acc)
    ELSE IF CapacityOverflow(bytes_per_image) THEN Panic("capacity overflow")
    ELSE LET n == Min(bytes_per_image.off, Len(file) - pos)
             image == SubSeq(file, pos + 1, pos + n)
         IN IF LenDiffers(Len(image), bytes_per_image)
            THEN ErrMessage(MsgImageTruncated)
            ELSE ReadImageLoop_RejectsSurplus(file, pos + n, remaining - 1,
                                              bytes_per_image, Append(acc, image))

\* The body of `for _ in 0..number_of_images`, `remaining` iterations to go,
\* the file cursor at pos (0-based), acc the images pushed so far.
RECURSIVE ReadImageLoop(_, _, _, _, _)
ReadImageLoop(file, pos, remaining, bytes_per_image, acc) ==
    IF remaining = 0 THEN Ok(acc)
    ELSE IF CapacityOverflow(bytes_per_image) THEN Panic("capacity overflow")
    ELSE LET n == Min(bytes_per_image.off, Len(file) - pos)
             image == SubSeq(file, pos + 1, pos + n)
         IN IF LenDiffers(Len(image), bytes_per_image)
            THEN ErrMessage(MsgImageTruncated)
            ELSE ReadImageLoop(file, pos + n, remaining - 1, bytes_per_image,
                               Append(acc, image))

read_in_images(file, checks) ==
    IF file = NoFile THEN ErrIO("NotFound")
    ELSE
    LET magic_number == ReadI32(file, 0)
        images_field == ReadI32(file, 4)
        rows_field == ReadI32(file, 8)
        cols_field == ReadI32(file, 12)
    IN
    IF magic_number.kind # "ok" THEN magic_number
    ELSE IF images_field.kind # "ok" THEN images_field
    ELSE IF rows_field.kind # "ok" THEN rows_field
    ELSE IF cols_field.kind # "ok" THEN cols_field
    ELSE
    LET number_of_images == AsUsize(images_field.value)
        number_of_rows == AsUsize(rows_field.value)
        number_of_cols == AsUsize(cols_field.value)
    IN
    IF checks /\ MulOverflows(number_of_rows, number_of_cols)
    THEN Panic("attempt to multiply with overflow")
    ELSE
    LET bytes_per_image == WrappingMul(number_of_rows, number_of_cols) IN
    IF ~ImageMagicOk(magic_number.value) THEN ErrMessage(MsgImageMagic)
    ELSE IF CapacityOverflow(number_of_images) THEN Panic("capacity overflow")
    ELSE
    LET images == ReadImageLoop(file, 16, number_of_images.off,
                                bytes_per_image, <<>>)
    IN
    IF images.kind # "ok" THEN images
    ELSE Ok([dimensions |-> <<number_of_rows, number_of_cols>>,
             pixel_count |-> bytes_per_image,
             list |-> images.value,
             labels |-> <<>>])

(***************************************************************************)
(* read_in_labels                                                          *)
(***************************************************************************)
read_in_labels(file) ==
    IF file = NoFile THEN ErrIO("NotFound")
    ELSE
    LET magic_number == ReadI32(file, 0)
        items_field == ReadI32(file, 4)
    IN
    IF magic_number.kind # "ok" THEN magic_number
    ELSE IF items_field.kind # "ok" THEN items_field
    ELSE
    LET number_of_items == AsUsize(items_field.value) IN
    IF ~LabelMagicOk(magic_number.value) THEN ErrMessage(MsgLabelMagic)
    ELSE IF CapacityOverflow(number_of_items) THEN Panic("capacity overflow")
    ELSE
    LET labels == SubSeq(file, 9, Len(file)) IN
    IF LenDiffers(Len(labels), number_of_items) THEN ErrMessage(MsgLabelLength)
    ELSE Ok(labels)

(***************************************************************************)
(* load_in_test_images / load_in_training_images                           *)
(***************************************************************************)
TestLabelsPath == "./data/t10k-labels-idx1-ubyte"

TestImagesPath == "./data/t10k-images-idx3-ubyte"

TrainLabelsPath == "./data/train-labels-idx1-ubyte"

TrainImagesPath == "./data/train-images-idx3-ubyte"

Paths == {TestLabelsPath, TestImagesPath, TrainLabelsPath, TrainImagesPath}

\* A slip that would read the image file first.
LoadIn_ImagesFirst(labels_path, images_path) ==
    LET images == read_in_images(fs[images_path], overflow_checks) IN
    IF images.kind # "ok" THEN <<NotCalled, images, images>>
    ELSE
    LET labels == read_in_labels(fs[labels_path]) IN
    IF labels.kind # "ok" THEN <<labels, images, labels>>
    ELSE <<labels, images,
           Ok([images.value EXCEPT !.labels = labels.value])>>

\* A loader that would refuse files of unequal counts.
LoadIn_ComparesCounts(labels_path, images_path) ==
    LET labels == read_in_labels(fs[labels_path]) IN
    IF labels.kind # "ok" THEN <<labels, NotCalled, labels>>
    ELSE
    LET images == read_in_images(fs[images_path], overflow_checks) IN
    IF images.kind # "ok" THEN <<labels, images, images>>
    ELSE IF Len(images.value.list) # Len(labels.value)
    THEN <<labels, images, ErrMessage("The label and image counts differ.")>>
    ELSE <<labels, images,
           Ok([images.value EXCEPT !.labels = labels.value])>>

\* The three results of one load call: <<read_in_labels, read_in_images, load>>.
\* `?` returns the error at once; a panic unwinds through the caller.
LoadIn(labels_path, images_path) ==
    LET labels == read_in_labels(fs[labels_path]) IN
    IF labels.kind # "ok" THEN <<labels, NotCalled, labels>>
    ELSE
    LET images == read_in_images(fs[images_path], overflow_checks) IN
    IF images.kind # "ok" THEN <<labels, images, images>>
    ELSE <<labels, images,
           Ok([images.value EXCEPT !.labels = labels.value])>>

load_in_test_images ==
    LET r == LoadIn(TestLabelsPath, TestImagesPath) IN
    /\ labels_ret' = r[1]
    /\ images_ret' = r[2]
    /\ load_ret' = r[3]
    /\ loaded' = "test"
    /\ UNCHANGED <<fs, overflow_checks>>
    /\ UNCHANGED <<netVars, passVars, tableVars>>

load_in_training_images ==
    LET r == LoadIn(TrainLabelsPath, TrainImagesPath) IN
    /\ labels_ret' = r[1]
    /\ images_ret' = r[2]
    /\ load_ret' = r[3]
    /\ loaded' = "training"
    /\ UNCHANGED <<fs, overflow_checks>>
    /\ UNCHANGED <<netVars, passVars, tableVars>>

(***************************************************************************)
(* The files the loader is run on.                                         *)
(***************************************************************************)
Magics == {3, LabelMagic, ImageMagic}

PayloadBytes == {0, 255}

Payloads == UNION {[1..k -> PayloadBytes] : k \in 0..MaxPayload}

ImageHeader(m, n, r, c) ==
    EncodeI32(m) \o EncodeI32(n) \o EncodeI32(r) \o EncodeI32(c)

LabelHeader(m, n) == EncodeI32(m) \o EncodeI32(n)

\* Every header with a payload, and every proper prefix of a header.
ImageFiles ==
    {ImageHeader(m, n, r, c) \o p :
        m \in Magics, n \in -1..MaxCount, r \in -1..MaxDim, c \in -1..MaxDim,
        p \in Payloads}
    \cup {SubSeq(ImageHeader(m, n, 1, 1), 1, k) :
            m \in Magics, n \in -1..MaxCount, k \in 0..15}

LabelFiles ==
    {LabelHeader(m, n) \o p :
        m \in Magics, n \in -1..(MaxCount + 1), p \in Payloads}
    \cup {SubSeq(LabelHeader(m, 1), 1, k) : m \in Magics, k \in 0..7}

\* A few files to pair with every file of the other kind.
FewLabelFiles ==
    {NoFile, LabelHeader(LabelMagic, 1) \o <<5>>,
     LabelHeader(LabelMagic, 2) \o <<5, 9>>}

FewImageFiles ==
    {NoFile, ImageHeader(ImageMagic, 1, 1, 1) \o <<255>>,
     ImageHeader(ImageMagic, 2, 1, 1) \o <<0, 255>>,
     ImageHeader(LabelMagic, 1, 1, 1) \o <<255>>}

FilePairs ==
    (FewLabelFiles \X ImageFiles) \cup (LabelFiles \X (FewImageFiles \cup {NoFile}))

NoNet == [built |-> FALSE]

NoPasses == <<>>

NoTableCall == [op |-> "none", arg |-> "", result |-> 0]

NoCall == [op |-> "none", arg |-> 0, result |-> NotCalled, trace |-> <<>>]

\* One split's two files are on disk, the other split's are absent.
InitLoader ==
    /\ overflow_checks \in BOOLEAN
    /\ \E pair \in FilePairs, split \in {"test", "training"} :
          fs = [p \in Paths |->
                  IF split = "test" /\ p = TestLabelsPath THEN pair[1]
                  ELSE IF split = "test" /\ p = TestImagesPath THEN pair[2]
                  ELSE IF split = "training" /\ p = TrainLabelsPath THEN pair[1]
                  ELSE IF split = "training" /\ p = TrainImagesPath THEN pair[2]
                  ELSE NoFile]
    /\ labels_ret = NotCalled
    /\ images_ret = NotCalled
    /\ load_ret = NotCalled
    /\ loaded = "none"
    /\ net = NoNet
    /\ last_call = NoCall
    /\ passes = NoPasses
    /\ strings = <<>>
    /\ table_call = NoTableCall

NextLoader == load_in_test_images \/ load_in_training_images

SpecLoader == InitLoader /\ [][NextLoader]_vars

(***************************************************************************)
(* Numbers of the network.  An f64 is modelled in fixed point: weights,    *)
(* biases and activations count thousandths (1.0 is Scale); a sum of       *)
(* weight * activation products counts millionths.                         *)
(***************************************************************************)
Scale == 1000

PixelMax == 255

\* A slip that would map the byte range the wrong way round.
PixelToActivation_Inverted(pixel) == ((PixelMax - pixel) * Scale) \div PixelMax

\* pixel as f64 / 255f64
PixelToActivation(pixel) == (pixel * Scale) \div PixelMax

\* 1 / (1 + e^x) at x = -6.0, -5.5, ..., 6.0, in thousandths.
SigmoidTable ==
    <<998, 996, 993, 989, 982, 971, 953, 924, 881, 818, 731, 622, 500,
      378, 269, 182, 119, 76, 47, 29, 18, 11, 7, 4, 2>>

\* sigmoid(value) = 1.0 / (1.0 + E.powf(value)): value in millionths, the
\* result in thousandths, linear between the points of the table.
sigmoid(value) ==
    LET lo == (0 - 6) * Scale * Scale
        step == (Scale * Scale) \div 2
    IN IF value <= lo THEN SigmoidTable[1]
       ELSE IF value >= 0 - lo THEN SigmoidTable[Len(SigmoidTable)]
       ELSE LET i == (value - lo) \div step
                frac == (value - lo) % step
            IN SigmoidTable[i + 1]
               + ((SigmoidTable[i + 2] - SigmoidTable[i + 1]) * frac) \div step

(***************************************************************************)
(* rand::thread_rng(): a stream of draws; the state after construction of  *)
(* the generator is the seed.                                              *)
(***************************************************************************)
RngNext(x) == (5 * x + 3) % 16

RECURSIVE RngAfter(_, _)
RngAfter(x, draws) == IF draws = 0 THEN x ELSE RngAfter(RngNext(x), draws - 1)

\* Range::new(-1f64, 1.0).ind_sample: the draw-th value of the stream that
\* starts at x; it lies in [-1.0, 1.0).
Sample(x, draw) == (0 - Scale) + ((2 * Scale) \div 16) * RngAfter(x, draw)

(***************************************************************************)
(* Layer::new                                                              *)
(***************************************************************************)
\* Each node draws previous_node_count weights, then its bias.
LayerNew(node_count, previous_node_count, rng) ==
    [layer |->
        [i \in 1..node_count |->
            LET first == (i - 1) * (previous_node_count + 1) IN
            [weights |-> [j \in 1..previous_node_count |-> Sample(rng, first + j)],
             bias |-> Sample(rng, first + previous_node_count + 1),
             cost |-> 0,
             activation |-> 0]],
     rng |-> RngAfter(rng, node_count * (previous_node_count + 1))]

(***************************************************************************)
(* Network::new                                                            *)
(***************************************************************************)
\* A slip that would wire every hidden layer to the input layer.
HiddenPrevNodeCount_NotUpdated(hidden_node_count, prev_node_count) ==
    prev_node_count

\* prev_node_count = hidden_node_count, at the end of the loop body.
HiddenPrevNodeCount(hidden_node_count, prev_node_count) == hidden_node_count

\* for _ in 0..hidden_layer_count { layers.push(Layer::new(..)); .. }
RECURSIVE AddHiddenLayers(_, _, _, _, _)
AddHiddenLayers(layers, rng, prev_node_count, hidden_node_count, remaining) ==
    IF remaining = 0
    THEN [layers |-> layers, rng |-> rng, prev_node_count |-> prev_node_count]
    ELSE LET made == LayerNew(hidden_node_count, prev_node_count, rng) IN
         AddHiddenLayers(Append(layers, made.layer), made.rng,
                         HiddenPrevNodeCount(hidden_node_count, prev_node_count),
                         hidden_node_count, remaining - 1)

NetworkNew(images, hidden_layer_count, hidden_node_count, output_node_count, seed) ==
    LET input_node_count == images.pixel_count
        input == LayerNew(input_node_count, 0, seed)
        hidden == AddHiddenLayers(<<input.layer>>, input.rng, input_node_count,
                                  hidden_node_count, hidden_layer_count)
        output == LayerNew(output_node_count, hidden.prev_node_count, hidden.rng)
    IN [built |-> TRUE,
        images |-> images,
        layers |-> Append(hidden.layers, output.layer),
        input_node_count |-> input_node_count,
        hidden_layer_count |-> hidden_layer_count,
        hidden_node_count |-> hidden_node_count,
        output_node_count |-> output_node_count]

\* Counts within 3 of 2^64 are written as their two's complement: usize::MAX
\* is -1, so that the wrapping sum of the machine is the sum of the model.
UsizeMax == 0 - 1

AddOverflows(a, b) == a < 0 /\ a + b >= 0

\* Vec::with_capacity(n) of Layer (24 bytes) or Node (56 bytes): more than
\* isize::MAX bytes.
TooManyElements(n) == n < 0

\* hidden_node_count + 2, the argument of Vec::with_capacity at line 89
LayersCapacityOverflows(hidden_node_count) == AddOverflows(hidden_node_count, 2)

\* The whole of Network::new, its panics included.  pixel_count and
\* hidden_layer_count are counts that memory can hold.
network_new(images, hidden_layer_count, hidden_node_count, output_node_count, seed, checks) ==
    IF LayersCapacityOverflows(hidden_node_count) /\ checks
    THEN Panic("attempt to add with overflow")
    ELSE IF ~LayersCapacityOverflows(hidden_node_count)
            /\ TooManyElements(hidden_node_count + 2)
    THEN Panic("capacity overflow")
    ELSE IF hidden_layer_count > 0 /\ TooManyElements(hidden_node_count)
    THEN Panic("capacity overflow")
    ELSE IF TooManyElements(output_node_count)
    THEN Panic("capacity overflow")
    ELSE Ok(NetworkNew(images, hidden_layer_count, hidden_node_count,
                       output_node_count, seed))

(***************************************************************************)
(* Network::run                                                            *)
(***************************************************************************)
None == [some |-> FALSE, value |-> <<>>]

Some(v) == [some |-> TRUE, value |-> v]

\* A slip that would clamp the index instead of refusing it.
SliceGet_Clamped(list, index) ==
    IF Len(list) = 0 THEN None
    ELSE Some(list[Min(index, Len(list) - 1) + 1])

\* slice.get(index), index counted from 0.
SliceGet(list, index) ==
    IF index < Len(list) THEN Some(list[index + 1]) ELSE None

\* for (node, pixel) in zip(input_layer.iter(), image_data): the first
\* min(len, len) nodes are written, in order.
RECURSIVE WriteInputLayer(_, _, _, _)
WriteInputLayer(layers, trace, image_data, i) ==
    IF i > Min(Len(layers[1]), Len(image_data))
    THEN [layers |-> layers, trace |-> trace]
    ELSE WriteInputLayer(
            [layers EXCEPT ![1][i].activation = PixelToActivation(image_data[i])],
            Append(trace, <<"write", 1, i>>), image_data, i + 1)

\* for (input_node, weight) in zip(input_layer.iter(), &node.weights)
\*     { multiplication_result += weight * *input_node.activation.borrow(); }
RECURSIVE MultiplicationResult(_, _, _)
MultiplicationResult(input_layer, weights, j) ==
    IF j > Min(Len(input_layer), Len(weights)) THEN 0
    ELSE weights[j] * input_layer[j].activation
         + MultiplicationResult(input_layer, weights, j + 1)

\* A slip that would leave the bias out of the sum.
NodeActivation_NoBias(node, input_layer) ==
    sigmoid(MultiplicationResult(input_layer, node.weights, 1))

\* sigmoid(multiplication_result + node.bias)
NodeActivation(node, input_layer) ==
    sigmoid(MultiplicationResult(input_layer, node.weights, 1) + node.bias * Scale)

\* The reads of one node's dot product, in order.
NodeReads(layers, k, n) ==
    [j \in 1..Min(Len(layers[k - 1]), Len(layers[k][n].weights)) |->
        <<"read", k - 1, j>>]

\* for window in self.layers.windows(2) { for node in output_layer.iter() .. }:
\* from node n of layer k on, each node computed from the activations that
\* layer k-1 holds at that moment and stored in place.
RECURSIVE PropagateFrom(_, _, _, _)
PropagateFrom(layers, trace, k, n) ==
    IF k > Len(layers) THEN [layers |-> layers, trace |-> trace]
    ELSE IF n > Len(layers[k]) THEN PropagateFrom(layers, trace, k + 1, 1)
    ELSE PropagateFrom(
            [layers EXCEPT ![k][n].activation =
                              NodeActivation(layers[k][n], layers[k - 1])],
            Append(trace \o NodeReads(layers, k, n), <<"write", k, n>>),
            k, n + 1)

\* A slip that would return the first layer's activations.
OutputActivations_FirstLayer(layers) ==
    [n \in 1..Len(layers[1]) |-> layers[1][n].activation]

\* self.layers.last().iter().map(|node| *node.activation.borrow()).collect()
OutputActivations(layers) ==
    [n \in 1..Len(layers[Len(layers)]) |-> layers[Len(layers)][n].activation]

\* A slip that would let an input node keep an earlier, larger activation.
run_KeepsBrighterInput(network, image_index) ==
    LET image_data == SliceGet(network.images.list, image_index) IN
    IF ~image_data.some
    THEN [result |-> Panic("called Option::unwrap() on a None value"),
          layers |-> network.layers, trace |-> <<>>]
    ELSE LET input == WriteInputLayer(network.layers, <<>>, image_data.value, 1)
             kept == [input.layers EXCEPT ![1] =
                        [n \in 1..Len(input.layers[1]) |->
                            IF network.layers[1][n].activation
                                  > input.layers[1][n].activation
                            THEN network.layers[1][n]
                            ELSE input.layers[1][n]]]
             done == PropagateFrom(kept, input.trace, 2, 1)
         IN [result |-> Ok(OutputActivations(done.layers)),
             layers |-> done.layers, trace |-> done.trace]

\* A slip that would also record each output activation in the node's cost.
run_WritesNodeCost(network, image_index) ==
    LET image_data == SliceGet(network.images.list, image_index) IN
    IF ~image_data.some
    THEN [result |-> Panic("called Option::unwrap() on a None value"),
          layers |-> network.layers, trace |-> <<>>]
    ELSE LET input == WriteInputLayer(network.layers, <<>>, image_data.value, 1)
             done == PropagateFrom(input.layers, input.trace, 2, 1)
             last == Len(done.layers)
         IN [result |-> Ok(OutputActivations(done.layers)),
             layers |-> [done.layers EXCEPT ![last] =
                            [n \in 1..Len(done.layers[last]) |->
                                [done.layers[last][n] EXCEPT
                                    !.cost = done.layers[last][n].activation]]],
             trace |-> done.trace]

\* The whole of run: the result, the layers it leaves and the accesses made.
run(network, image_index) ==
    LET image_data == SliceGet(network.images.list, image_index) IN
    IF ~image_data.some
    THEN [result |-> Panic("called Option::unwrap() on a None value"),
          layers |-> network.layers, trace |-> <<>>]
    ELSE LET input == WriteInputLayer(network.layers, <<>>, image_data.value, 1)
             done == PropagateFrom(input.layers, input.trace, 2, 1)
         IN [result |-> Ok(OutputActivations(done.layers)),
             layers |-> done.layers, trace |-> done.trace]

(***************************************************************************)
(* Network::cost                                                           *)
(***************************************************************************)
\* A slip that would forget to set the answer's entry to 1.0.
cost_AnswerNotSet(network, answer_index) ==
    LET zeros == [i \in 1..network.output_node_count |-> 0]
        layer == network.layers[Len(network.layers)]
    IN
    IF ~SliceGet(zeros, answer_index).some
    THEN Panic("Network does not have enough output nodes for that answer")
    ELSE Ok([i \in 1..Min(Len(layer), Len(zeros)) |-> 0 - layer[i].activation])

cost(network, answer_index) ==
    LET zeros == [i \in 1..network.output_node_count |-> 0]
        answer_node == SliceGet(zeros, answer_index)
    IN
    IF ~answer_node.some
    THEN Panic("Network does not have enough output nodes for that answer")
    ELSE LET answer_vec == [zeros EXCEPT ![answer_index + 1] = Scale]
             layer == network.layers[Len(network.layers)]
         IN Ok([i \in 1..Min(Len(layer), Len(answer_vec)) |->
                   answer_vec[i] - layer[i].activation])

(***************************************************************************)
(* The networks and calls explored.                                        *)
(***************************************************************************)
MaxPixels == 2         \* pixel_count and image lengths range over 0..MaxPixels
MaxHiddenLayers == 2   \* hidden_layer_count ranges over 0..MaxHiddenLayers
MaxHiddenNodes == 2    \* hidden_node_count ranges over 0..MaxHiddenNodes
MaxOutputNodes == 2    \* output_node_count ranges over 0..MaxOutputNodes

PixelValues == {0, 255}

Seeds == {0, 7}

ImageSet == UNION {[1..k -> PixelValues] : k \in 0..MaxPixels}

Invert(image) == [i \in 1..Len(image) |-> PixelMax - image[i]]

DropLast(image) == SubSeq(image, 1, Len(image) - 1)

\* Datasets of no image, or of an image followed by its inverse, whole or
\* one byte short.  An Images value may be built directly (its fields are
\* public), so its images need not have pixel_count bytes.
ImageLists ==
    {<<>>} \cup {<<a, Invert(a)>> : a \in ImageSet}
           \cup {<<a, DropLast(Invert(a))>> : a \in ImageSet}

Datasets ==
    {[dimensions |-> <<1, p>>, pixel_count |-> p, list |-> l,
      labels |-> [i \in 1..Len(l) |-> i - 1]] :
        p \in 0..MaxPixels, l \in ImageLists}

CallNetworkNew ==
    /\ ~net.built
    /\ \E images \in Datasets, h \in 0..MaxHiddenLayers,
          n \in 0..MaxHiddenNodes, o \in 0..MaxOutputNodes, seed \in Seeds :
          LET r == network_new(images, h, n, o, seed, overflow_checks) IN
          /\ r.kind = "ok"
          /\ net' = r.value
    /\ last_call' = NoCall
    /\ UNCHANGED <<loaderVars, passVars, tableVars>>

\* image_index 2 is out of range for every dataset explored.
CallRun ==
    /\ net.built
    /\ \E image_index \in 0..2 :
          LET r == run(net, image_index) IN
          /\ net' = [net EXCEPT !.layers = r.layers]
          /\ last_call' = [op |-> "run", arg |-> image_index,
                           result |-> r.result, trace |-> r.trace]
    /\ UNCHANGED <<loaderVars, passVars, tableVars>>

CallCost ==
    /\ net.built
    /\ \E answer_index \in 0..MaxOutputNodes :
          /\ last_call' = [op |-> "cost", arg |-> answer_index,
                           result |-> cost(net, answer_index),
                           trace |-> <<>>]
          /\ UNCHANGED net
    /\ UNCHANGED <<loaderVars, passVars, tableVars>>

InitNetwork ==
    /\ fs = [p \in Paths |-> NoFile]
    /\ overflow_checks = FALSE
    /\ labels_ret = NotCalled
    /\ images_ret = NotCalled
    /\ load_ret = NotCalled
    /\ loaded = "none"
    /\ net = NoNet
    /\ last_call = NoCall
    /\ passes = NoPasses
    /\ strings = <<>>
    /\ table_call = NoTableCall

NextNetwork == CallNetworkNew \/ CallRun \/ CallCost

SpecNetwork == InitNetwork /\ [][NextNetwork]_vars

(***************************************************************************)
(* Two passes of Network::run on one Network, for image 0 and image 1,     *)
(* taken one node at a time.  A step is one iteration of the loop at       *)
(* network.rs 123-126 (one input node written) or of the loop at 131-141   *)
(* (one node's sum read from the layer before and its activation stored),  *)
(* or the collection of the result at 144-149.  The activations are the    *)
(* cells of the one Network; a pass owns only its position.                *)
(***************************************************************************)
IdlePass ==
    [phase |-> "idle", k |-> 0, n |-> 0, result |-> NotCalled,
     disturbed |-> FALSE]

InFlight == {"input", "propagate", "collect"}

\* A slip that would end the pass after the first layer it computes.
PassNext_StopsAfterFirstLayer(layers, k, n) ==
    IF n < Len(layers[k]) /\ k > 1 THEN [phase |-> "propagate", k |-> k, n |-> n + 1]
    ELSE IF k = 1 THEN [phase |-> "propagate", k |-> 2, n |-> 1]
    ELSE [phase |-> "collect", k |-> 0, n |-> 0]

\* The position after node n of layer k in the loops of run; no layer of
\* the networks explored here is empty.
PassNext(layers, k, n) ==
    IF n < Len(layers[k]) /\ k > 1 THEN [phase |-> "propagate", k |-> k, n |-> n + 1]
    ELSE IF k < Len(layers) THEN [phase |-> "propagate", k |-> k + 1, n |-> 1]
    ELSE [phase |-> "collect", k |-> 0, n |-> 0]

PassImage(p) == net.images.list[p]

\* Pass p has written a cell: every other pass in flight has been disturbed.
AfterWriteBy(p, position) ==
    [q \in 1..2 |->
        IF q = p
        THEN [passes[p] EXCEPT !.phase = position.phase,
                               !.k = position.k, !.n = position.n]
        ELSE IF passes[q].phase \in InFlight
        THEN [passes[q] EXCEPT !.disturbed = TRUE]
        ELSE passes[q]]

\* let image_data = self.images.list.get(image_index).unwrap();
PassStart ==
    /\ \E p \in 1..2 :
          /\ passes[p].phase = "idle"
          /\ SliceGet(net.images.list, p - 1).some
          /\ passes' = [passes EXCEPT ![p].phase = "input", ![p].k = 1,
                                      ![p].n = 1]
    /\ UNCHANGED <<loaderVars, netVars, tableVars>>

\* node.activation.replace(pixel as f64 / 255f64), one node of the zip
PassWriteInputNode ==
    /\ \E p \in 1..2 :
          LET n == passes[p].n
              last == Min(Len(net.layers[1]), Len(PassImage(p)))
          IN
          /\ passes[p].phase = "input"
          /\ n <= last
          /\ net' = [net EXCEPT !.layers[1][n].activation =
                                    PixelToActivation(PassImage(p)[n])]
          /\ passes' = AfterWriteBy(p,
                          IF n < last THEN [phase |-> "input", k |-> 1, n |-> n + 1]
                          ELSE PassNext(net.layers, 1, Len(net.layers[1])))
    /\ UNCHANGED <<loaderVars, last_call, tableVars>>

\* one iteration of for node in output_layer.iter()
PassComputeNode ==
    /\ \E p \in 1..2 :
          LET k == passes[p].k
              n == passes[p].n
          IN
          /\ passes[p].phase = "propagate"
          /\ net' = [net EXCEPT !.layers[k][n].activation =
                                    NodeActivation(net.layers[k][n],
                                                   net.layers[k - 1])]
          /\ passes' = AfterWriteBy(p, PassNext(net.layers, k, n))
    /\ UNCHANGED <<loaderVars, last_call, tableVars>>

\* self.layers.last()...collect()
PassReturn ==
    /\ \E p \in 1..2 :
          /\ passes[p].phase = "collect"
          /\ passes' = [passes EXCEPT ![p].phase = "done",
                           ![p].result = Ok(OutputActivations(net.layers))]
    /\ UNCHANGED <<loaderVars, netVars, tableVars>>

\* Datasets of two different images, each of pixel_count bytes.
PairDatasets ==
    UNION {{[dimensions |-> <<1, p>>, pixel_count |-> p,
             list |-> <<a, Invert(a)>>, labels |-> <<0, 1>>] :
                a \in [1..p -> PixelValues]} : p \in 1..MaxPixels}

InterleavedNetworks ==
    {NetworkNew(images, h, n, o, seed) :
        images \in PairDatasets,
        h \in 0..MaxHiddenLayers, n \in 1..MaxHiddenNodes,
        o \in 1..MaxOutputNodes, seed \in Seeds}

InitInterleaved ==
    /\ fs = [p \in Paths |-> NoFile]
    /\ overflow_checks = FALSE
    /\ labels_ret = NotCalled
    /\ images_ret = NotCalled
    /\ load_ret = NotCalled
    /\ loaded = "none"
    /\ net \in InterleavedNetworks
    /\ last_call = NoCall
    /\ passes = [p \in 1..2 |-> IdlePass]
    /\ strings = <<>>
    /\ table_call = NoTableCall

NextInterleaved ==
    PassStart \/ PassWriteInputNode \/ PassComputeNode \/ PassReturn

SpecInterleaved == InitInterleaved /\ [][NextInterleaved]_vars

(***************************************************************************)
(* Network::new on the degenerate parameter combinations, those with a     *)
(* zero among pixel_count, hidden_layer_count, hidden_node_count and       *)
(* output_node_count, in either build profile, followed by run and cost.   *)
(* hidden_node_count also takes usize::MAX, which no layer needs when      *)
(* hidden_layer_count is 0.                                                *)
(***************************************************************************)
NoPixelsDataset ==
    [dimensions |-> <<0, 0>>, pixel_count |-> 0, list |-> <<<<>>, <<>>>>,
     labels |-> <<0, 1>>]

DegenerateDatasets == PairDatasets \cup {NoPixelsDataset}

HasZero(images, h, n, o) ==
    images.pixel_count = 0 \/ h = 0 \/ n = 0 \/ o = 0

CallNetworkNewDegenerate ==
    /\ ~net.built
    /\ \E images \in DegenerateDatasets, h \in 0..MaxHiddenLayers,
          n \in 0..MaxHiddenNodes \cup {UsizeMax}, o \in 0..MaxOutputNodes,
          seed \in Seeds :
          LET r == network_new(images, h, n, o, seed, overflow_checks) IN
          /\ HasZero(images, h, n, o)
          /\ net' = IF r.kind = "ok" THEN r.value ELSE net
          /\ last_call' = [op |-> "new", arg |-> <<images.pixel_count, h, n, o>>,
                           result |-> IF r.kind = "ok" THEN Ok(<<>>) ELSE r,
                           trace |-> <<>>]
    /\ UNCHANGED <<loaderVars, passVars, tableVars>>

InitDegenerate ==
    /\ fs = [p \in Paths |-> NoFile]
    /\ overflow_checks \in BOOLEAN
    /\ labels_ret = NotCalled
    /\ images_ret = NotCalled
    /\ load_ret = NotCalled
    /\ loaded = "none"
    /\ net = NoNet
    /\ last_call = NoCall
    /\ passes = NoPasses
    /\ strings = <<>>
    /\ table_call = NoTableCall

NextDegenerate == CallNetworkNewDegenerate \/ CallRun \/ CallCost

SpecDegenerate == InitDegenerate /\ [][NextDegenerate]_vars

(***************************************************************************)
(* text-embedding/src/string_table.rs: StringTable.  The table is the      *)
(* variable strings; StringTable::new leaves it empty.  An index counts    *)
(* from 0.                                                                 *)
(***************************************************************************)
\* A slip that would start the search at the second entry.
RECURSIVE Position_SkipsFirst(_, _, _)
Position_SkipsFirst(self, s, from) ==
    IF from + 1 > Len(self) THEN None
    ELSE IF from > 0 /\ self[from + 1] = s THEN Some(from)
    ELSE Position_SkipsFirst(self, s, from + 1)

\* self.strings.iter().position(|x| *x == s), searched from entry from on
RECURSIVE Position(_, _, _)
Position(self, s, from) ==
    IF from + 1 > Len(self) THEN None
    ELSE IF self[from + 1] = s THEN Some(from)
    ELSE Position(self, s, from + 1)

\* take_string(&mut self, string: String): the table it leaves and the
\* index it returns
take_string(self, s) ==
    LET found == Position(self, s, 0) IN
    IF found.some THEN [strings |-> self, index |-> found.value]
    ELSE [strings |-> Append(self, s), index |-> Len(self)]

\* index(&mut self, string: &String): as take_string, a copy is pushed
index(self, s) ==
    LET found == Position(self, s, 0) IN
    IF found.some THEN [strings |-> self, index |-> found.value]
    ELSE [strings |-> Append(self, s), index |-> Len(self)]

\* string(&self, index: StringIndex) -> &str
string(self, i) ==
    LET found == SliceGet(self, i) IN
    IF found.some THEN found.value ELSE ""

Words == {"", "a", "b", "c"}

CallTakeString ==
    /\ \E s \in Words :
          LET r == take_string(strings, s) IN
          /\ strings' = r.strings
          /\ table_call' = [op |-> "take_string", arg |-> s, result |-> r.index]
    /\ UNCHANGED <<loaderVars, netVars, passVars>>

CallIndex ==
    /\ \E s \in Words :
          LET r == index(strings, s) IN
          /\ strings' = r.strings
          /\ table_call' = [op |-> "index", arg |-> s, result |-> r.index]
    /\ UNCHANGED <<loaderVars, netVars, passVars>>

\* An index past the end is asked for as well.
CallString ==
    /\ \E i \in 0..(Cardinality(Words) + 1) :
          table_call' = [op |-> "string", arg |-> i, result |-> string(strings, i)]
    /\ UNCHANGED <<loaderVars, netVars, passVars, strings>>

InitStringTable ==
    /\ fs = [p \in Paths |-> NoFile]
    /\ overflow_checks = FALSE
    /\ labels_ret = NotCalled
    /\ images_ret = NotCalled
    /\ load_ret = NotCalled
    /\ loaded = "none"
    /\ net = NoNet
    /\ last_call = NoCall
    /\ passes = NoPasses
    /\ strings = <<>>
    /\ table_call = NoTableCall

NextStringTable == CallTakeString \/ CallIndex \/ CallString

SpecStringTable == InitStringTable /\ [][NextStringTable]_vars

(***************************************************************************)
(* Vocabulary of the loader claims.                                        *)
(***************************************************************************)
IsErrMessage(r, m) == r.kind = "err_message" /\ r.msg = m

IsErrIO(r, k) == r.kind = "err_io" /\ r.msg = k

IsPanic(r) == r.kind = "panic"

\* The files of the split the last load call was for.
LabelsFile == IF loaded = "test" THEN fs[TestLabelsPath] ELSE fs[TrainLabelsPath]

ImagesFile == IF loaded = "test" THEN fs[TestImagesPath] ELSE fs[TrainImagesPath]

ImagesCalled == loaded # "none" /\ images_ret.kind # "not_called"

LabelsCalled == loaded # "none" /\ labels_ret.kind # "not_called"

\* The k-th (0-based) big-endian 32-bit integer of a file, as written.
Field(file, k) == DecodeI32(SubSeq(file, 4 * k + 1, 4 * k + 4))

HasMagic(file) == file # NoFile /\ Len(file) >= 4

\* The usize u holds the integer v.
UsizeIs(u, v) == ~u.top /\ v >= 0 /\ u.off = v

\* The payload after the 16-byte header holds fewer bytes than the header
\* declares. A field with the top bit set declares at least 2^31 items
\* whether it is read as signed or unsigned, which no file here holds.
DeclaredPayloadExceeds(file) ==
    LET n == Field(file, 1)
        r == Field(file, 2)
        c == Field(file, 3)
    IN IF n = 0 \/ r = 0 \/ c = 0 THEN FALSE
       ELSE IF n < 0 \/ r < 0 \/ c < 0 THEN TRUE
       ELSE Len(file) - 16 < n * r * c

NonNegativeImageHeader(file) ==
    Field(file, 1) >= 0 /\ Field(file, 2) >= 0 /\ Field(file, 3) >= 0

(***************************************************************************)
(* C1 as written: every image file whose magic is not 2051 makes           *)
(* read_in_images fail with the format error, and every label file whose   *)
(* magic is not 2049 makes read_in_labels fail with the format error,      *)
(* whatever the length of the file (also when it is shorter than the       *)
(* header).                                                                *)
(***************************************************************************)
C1_BadMagicAlwaysFormatError ==
    /\ (ImagesCalled /\ HasMagic(ImagesFile)
            /\ Field(ImagesFile, 0) # 2051)
          => IsErrMessage(images_ret, MsgImageMagic)
    /\ (LabelsCalled /\ HasMagic(LabelsFile)
            /\ Field(LabelsFile, 0) # 2049)
          => IsErrMessage(labels_ret, MsgLabelMagic)

(***************************************************************************)
(* C1 amended: the format error is returned for a wrong magic when the     *)
(* file holds its whole header (16 bytes for images, 8 for labels); a file *)
(* that is shorter than its header fails with Error::IO (unexpected end of *)
(* file) whatever its magic.  The one other outcome: in a build with       *)
(* overflow checks, an image header whose rows*cols overflows usize panics *)
(* at the multiplication, which precedes the magic test.                   *)
(***************************************************************************)
C1_BadMagicFormatErrorWithFullHeader ==
    /\ (ImagesCalled /\ HasMagic(ImagesFile) /\ Field(ImagesFile, 0) # 2051)
          => IF Len(ImagesFile) < 16
             THEN IsErrIO(images_ret, "UnexpectedEof")
             ELSE \/ IsErrMessage(images_ret, MsgImageMagic)
                  \/ /\ IsPanic(images_ret)
                     /\ overflow_checks
                     /\ MulOverflows(AsUsize(Field(ImagesFile, 2)),
                                     AsUsize(Field(ImagesFile, 3)))
    /\ (ImagesCalled /\ HasMagic(ImagesFile) /\ Len(ImagesFile) >= 16
            /\ Field(ImagesFile, 0) # 2051
            /\ ~(overflow_checks
                    /\ MulOverflows(AsUsize(Field(ImagesFile, 2)),
                                    AsUsize(Field(ImagesFile, 3)))))
          => IsErrMessage(images_ret, MsgImageMagic)
    /\ (LabelsCalled /\ HasMagic(LabelsFile) /\ Field(LabelsFile, 0) # 2049)
          => IF Len(LabelsFile) < 8
             THEN IsErrIO(labels_ret, "UnexpectedEof")
             ELSE IsErrMessage(labels_ret, MsgLabelMagic)

\* An image file with a whole header and a wrong magic was read and refused.
C1_Witness ==
    /\ ImagesCalled
    /\ HasMagic(ImagesFile)
    /\ Len(ImagesFile) >= 16
    /\ Field(ImagesFile, 0) = 2049
    /\ IsErrMessage(images_ret, MsgImageMagic)

(***************************************************************************)
(* C2: whenever read_in_images returns Ok for a file with header           *)
(* (2051, count, rows, cols), the dataset has count images, pixel_count =  *)
(* rows*cols, dimensions = (rows, cols), and image k is the k-th run of    *)
(* rows*cols payload bytes.                                                *)
(***************************************************************************)
C2_OkDatasetMatchesHeader ==
    (ImagesCalled /\ images_ret.kind = "ok") =>
        LET count == Field(ImagesFile, 1)
            rows == Field(ImagesFile, 2)
            cols == Field(ImagesFile, 3)
            data == images_ret.value
        IN /\ Field(ImagesFile, 0) = 2051
           /\ Len(data.list) = count
           /\ UsizeIs(data.pixel_count, rows * cols)
           /\ UsizeIs(data.dimensions[1], rows)
           /\ UsizeIs(data.dimensions[2], cols)
           /\ \A k \in 1..Len(data.list) :
                 /\ Len(data.list[k]) = rows * cols
                 /\ data.list[k] = SubSeq(ImagesFile,
                                          16 + (k - 1) * rows * cols + 1,
                                          16 + k * rows * cols)

\* C2 restricted to headers without a negative field (holds).
C2_OkDatasetMatchesNonNegativeHeader ==
    (ImagesCalled /\ images_ret.kind = "ok" /\ NonNegativeImageHeader(ImagesFile))
        => C2_OkDatasetMatchesHeader

(***************************************************************************)
(* C3: an image file with magic 2051 whose payload holds fewer than        *)
(* count*rows*cols bytes makes read_in_images fail with the truncation     *)
(* error.                                                                  *)
(***************************************************************************)
C3_ShortPayloadIsTruncationError ==
    (ImagesCalled /\ ImagesFile # NoFile /\ Len(ImagesFile) >= 16
        /\ Field(ImagesFile, 0) = 2051 /\ DeclaredPayloadExceeds(ImagesFile))
    => IsErrMessage(images_ret, MsgImageTruncated)

\* C3 restricted to headers without a negative field (holds).
C3_ShortPayloadNonNegativeHeader ==
    (ImagesCalled /\ ImagesFile # NoFile /\ Len(ImagesFile) >= 16
        /\ NonNegativeImageHeader(ImagesFile))
    => C3_ShortPayloadIsTruncationError

(***************************************************************************)
(* C4: for a label file with magic 2049 and declared count n,              *)
(* read_in_labels returns Ok(the bytes after the header) exactly when      *)
(* their number is n, and fails with the length error otherwise.           *)
(***************************************************************************)
C4_LabelsOkExactlyWhenLengthMatches ==
    (LabelsCalled /\ LabelsFile # NoFile /\ Len(LabelsFile) >= 8
        /\ Field(LabelsFile, 0) = 2049)
    => IF Len(LabelsFile) - 8 = Field(LabelsFile, 1)
       THEN /\ labels_ret.kind = "ok"
            /\ labels_ret.value = SubSeq(LabelsFile, 9, Len(LabelsFile))
       ELSE IsErrMessage(labels_ret, MsgLabelLength)

\* C4 restricted to a non-negative declared count (holds).
C4_LabelsNonNegativeCount ==
    (LabelsCalled /\ LabelsFile # NoFile /\ Len(LabelsFile) >= 8
        /\ Field(LabelsFile, 1) >= 0)
    => C4_LabelsOkExactlyWhenLengthMatches

(***************************************************************************)
(* C5: whatever the bytes of the two files, a load call ends by returning  *)
(* Ok(dataset) or Err(Error::Message | Error::IO); it never panics, and an *)
(* Ok dataset carries what the two readers returned.                       *)
(***************************************************************************)
C5_LoadReturnsTypedResult ==
    loaded # "none" =>
        /\ load_ret.kind \in {"ok", "err_message", "err_io"}
        /\ load_ret.kind = "ok" =>
              /\ labels_ret.kind = "ok"
              /\ images_ret.kind = "ok"
              /\ load_ret.value.labels = labels_ret.value
              /\ load_ret.value.list = images_ret.value.list

(***************************************************************************)
(* Vocabulary of the network claims.                                       *)
(***************************************************************************)
RunReturned == net.built /\ last_call.op = "run" /\ last_call.result.kind = "ok"

\* The image the last run call selected (the call was in range).
SelectedImage == net.images.list[last_call.arg + 1]

LastLayer == net.layers[Len(net.layers)]

\* Every image has exactly pixel_count bytes.
WellFormedDataset ==
    \A i \in 1..Len(net.images.list) :
        Len(net.images.list[i]) = net.images.pixel_count

\* Sum over j = 1..upto of weights[j] * a[j], a being a layer's activations.
RECURSIVE WeightedSum(_, _, _)
WeightedSum(weights, layer, upto) ==
    IF upto = 0 THEN 0
    ELSE WeightedSum(weights, layer, upto - 1)
         + weights[upto] * layer[upto].activation

(***************************************************************************)
(* C6: a network built from pixel_count P and (H, N, O) has H+2 layers of  *)
(* sizes [P, N x H, O]; the nodes of layer 0 have no weights and the nodes *)
(* of every later layer have one weight per node of the layer before; and  *)
(* Layer::new(n, p) makes n nodes of p weights each.                       *)
(***************************************************************************)
C6_NetworkShape ==
    /\ net.built =>
        LET P == net.images.pixel_count
            H == net.hidden_layer_count
            N == net.hidden_node_count
            O == net.output_node_count
        IN /\ Len(net.layers) = H + 2
           /\ Len(net.layers[1]) = P
           /\ \A k \in 2..(H + 1) : Len(net.layers[k]) = N
           /\ Len(net.layers[H + 2]) = O
           /\ \A n \in 1..P : Len(net.layers[1][n].weights) = 0
           /\ \A k \in 2..(H + 2) : \A n \in 1..Len(net.layers[k]) :
                 Len(net.layers[k][n].weights) = Len(net.layers[k - 1])
    /\ ~net.built =>   \* Layer::new on its own, examined once
          \A n \in 0..MaxHiddenNodes, p \in 0..MaxPixels, seed \in Seeds :
             LET made == LayerNew(n, p, seed).layer
             IN /\ Len(made) = n
                /\ \A i \in 1..n : Len(made[i].weights) = p

\* A network of two hidden layers whose three sizes differ pairwise.
C6_Witness ==
    /\ net.built
    /\ net.hidden_layer_count = 2
    /\ net.images.pixel_count = 1
    /\ net.hidden_node_count = 2
    /\ net.output_node_count = 0
    /\ Len(net.layers) = 4

(***************************************************************************)
(* C7: run with an image index past the end of the dataset, and cost with  *)
(* an answer index past the output layer, fail at the lookup (a panic),    *)
(* and the failed call changes nothing in the network.                     *)
(***************************************************************************)
C7_IndexErrorsLeaveNetworkUnchanged ==
    [][/\ (last_call'.op = "run" /\ last_call'.arg >= Len(net.images.list))
            => (IsPanic(last_call'.result) /\ net' = net)
       /\ (last_call'.op = "cost" /\ last_call'.arg >= net.output_node_count)
            => (IsPanic(last_call'.result) /\ net' = net)]_vars

\* A run past the end failed on a network whose nodes hold the activations
\* of an earlier pass.
C7_Witness ==
    /\ net.built
    /\ last_call.op = "run"
    /\ last_call.arg >= Len(net.images.list)
    /\ IsPanic(last_call.result)
    /\ Len(net.images.list) >= 1
    /\ \E n \in 1..Len(LastLayer) : LastLayer[n].activation # 0

(***************************************************************************)
(* C8: run fails with an index error whenever the selected image has fewer *)
(* bytes than the input layer has nodes, so no pass completes with an      *)
(* input node whose activation does not come from the selected image.      *)
(***************************************************************************)
C8_ShortImageFails ==
    (net.built /\ last_call.op = "run"
        /\ last_call.arg < Len(net.images.list)
        /\ Len(SelectedImage) < Len(net.layers[1]))
    => IsPanic(last_call.result)

(***************************************************************************)
(* C9: after a run over a well-formed dataset, input node i holds          *)
(* image[i]/255 and every node of every later layer holds                  *)
(* f(bias + sum_j weights[j] * a(k-1, j)) for the activations of layer k-1 *)
(* of this pass; every read of a node is preceded in the pass by the write *)
(* of that node, and layers are written in order.                          *)
(***************************************************************************)
C9_PassComputesLayerByLayer ==
    (RunReturned /\ WellFormedDataset) =>
        LET layers == net.layers
            trace == last_call.trace
        IN /\ \A i \in 1..Len(layers[1]) :
                 layers[1][i].activation = (SelectedImage[i] * 1000) \div 255
           /\ \A k \in 2..Len(layers) : \A n \in 1..Len(layers[k]) :
                 layers[k][n].activation =
                     sigmoid(layers[k][n].bias * 1000
                             + WeightedSum(layers[k][n].weights, layers[k - 1],
                                           Len(layers[k - 1])))
           /\ \A k \in 1..Len(layers) : \A n \in 1..Len(layers[k]) :
                 Cardinality({p \in DOMAIN trace : trace[p] = <<"write", k, n>>}) = 1
           /\ \A q \in DOMAIN trace :
                 trace[q][1] = "read" =>
                    \E p \in 1..(q - 1) : trace[p] = <<"write", trace[q][2], trace[q][3]>>
           /\ \A p, q \in DOMAIN trace :
                 (trace[p][1] = "write" /\ trace[q][2] > trace[p][2]) => p < q

\* A pass through two hidden layers of two nodes over a two-pixel image
\* that is not all zero.
C9_Witness ==
    /\ RunReturned
    /\ WellFormedDataset
    /\ net.hidden_layer_count = 2
    /\ net.hidden_node_count = 2
    /\ net.images.pixel_count = 2
    /\ net.output_node_count = 1
    /\ SelectedImage = <<255, 0>>

(***************************************************************************)
(* C10: a successful run returns output_node_count numbers, entry i the    *)
(* activation that node i of the last layer holds when the pass ends.      *)
(***************************************************************************)
C10_RunReturnsOutputLayer ==
    RunReturned =>
        /\ Len(last_call.result.value) = net.output_node_count
        /\ \A i \in 1..net.output_node_count :
              last_call.result.value[i] = LastLayer[i].activation

\* A run returned two outputs from a network with a one-node input layer
\* and a hidden layer.
C10_Witness ==
    /\ RunReturned
    /\ net.output_node_count = 2
    /\ net.images.pixel_count = 1
    /\ net.hidden_layer_count = 1
    /\ net.hidden_node_count = 2
    /\ Len(last_call.result.value) = 2
    /\ last_call.result.value[1] # last_call.result.value[2]

(***************************************************************************)
(* C11 as written: after run on an image of zero bytes only, every node of *)
(* every non-input layer holds f(bias) of that node.                       *)
(***************************************************************************)
ZeroImage(image) == \A i \in 1..Len(image) : image[i] = 0

\* Sum over j = from..Len(layer) of weights[j] * a[j].
RECURSIVE TailSum(_, _, _)
TailSum(weights, layer, from) ==
    IF from > Len(layer) THEN 0
    ELSE weights[from] * layer[from].activation
         + TailSum(weights, layer, from + 1)

C11_ZeroImageEveryLayerIsBias ==
    (RunReturned /\ ZeroImage(SelectedImage)) =>
        \A k \in 2..Len(net.layers) : \A n \in 1..Len(net.layers[k]) :
            net.layers[k][n].activation = sigmoid(net.layers[k][n].bias * 1000)

(***************************************************************************)
(* C11 amended: after run on an image of zero bytes only that covers the   *)
(* input layer, every node of the first non-input layer (the first hidden  *)
(* layer, or the output layer when there is no hidden layer) holds         *)
(* f(bias).  Later layers are fed f(..) > 0 and hold f(bias + weighted     *)
(* sum).  When the zero image is shorter than the input layer, the input   *)
(* nodes past its end keep their earlier activations and enter the sums of *)
(* the first non-input layer.                                              *)
(***************************************************************************)
C11_ZeroImageFirstLayerIsBias ==
    (RunReturned /\ ZeroImage(SelectedImage)) =>
        \A n \in 1..Len(net.layers[2]) :
            LET node == net.layers[2][n] IN
            /\ Len(SelectedImage) >= Len(net.layers[1])
                  => node.activation = sigmoid(node.bias * 1000)
            /\ node.activation =
                  sigmoid(node.bias * 1000
                          + TailSum(node.weights, net.layers[1],
                                    Len(SelectedImage) + 1))

\* A zero image of two bytes went through a network with two hidden layers.
C11_Witness ==
    /\ RunReturned
    /\ SelectedImage = <<0, 0>>
    /\ net.images.pixel_count = 2
    /\ net.hidden_layer_count = 2
    /\ net.hidden_node_count = 2
    /\ net.output_node_count = 2

(***************************************************************************)
(* C12: cost(a) with a < output_node_count returns a vector of             *)
(* output_node_count entries, 1.0 - out[a] at a and 0.0 - out[i] elsewhere,*)
(* where out is the output layer's activations, which are the vector the   *)
(* run just before returned; the call changes nothing of the network.      *)
(***************************************************************************)
ExpectedCost(out, answer_index) ==
    [i \in 1..Len(out) |->
        (IF i = answer_index + 1 THEN Scale ELSE 0) - out[i]]

C12_CostIsAnswerMinusOutput ==
    [][(last_call'.op = "cost" /\ last_call'.arg < net.output_node_count) =>
          /\ net' = net
          /\ last_call'.result.kind = "ok"
          /\ Len(last_call'.result.value) = net.output_node_count
          /\ last_call'.result.value =
                ExpectedCost(OutputActivations(net'.layers), last_call'.arg)
          /\ RunReturned =>
                last_call'.result.value =
                    ExpectedCost(last_call.result.value, last_call'.arg)]_vars

\* cost(1) answered after a run through a network of two output nodes.
C12_Witness ==
    /\ net.built
    /\ last_call.op = "cost"
    /\ last_call.arg = 1
    /\ last_call.result.kind = "ok"
    /\ Len(last_call.result.value) = 2
    /\ LastLayer[1].activation > 0
    /\ last_call.result.value[2] = Scale - LastLayer[2].activation

(***************************************************************************)
(* C13: once the network is built, no run or cost call, returning or       *)
(* panicking, changes a weight, a bias, the number of layers, the number   *)
(* of nodes of a layer, or the dataset; run writes activations only.       *)
(***************************************************************************)
WithoutActivations(network) ==
    [network EXCEPT !.layers =
        [k \in 1..Len(network.layers) |->
            [n \in 1..Len(network.layers[k]) |->
                [network.layers[k][n] EXCEPT !.activation = 0]]]]

C13_OnlyActivationsChange ==
    [][net.built =>
          /\ WithoutActivations(net') = WithoutActivations(net)
          /\ net'.images = net.images
          /\ Len(net'.layers) = Len(net.layers)
          /\ \A k \in 1..Len(net.layers) :
                /\ Len(net'.layers[k]) = Len(net.layers[k])
                /\ \A n \in 1..Len(net.layers[k]) :
                      /\ net'.layers[k][n].weights = net.layers[k][n].weights
                      /\ net'.layers[k][n].bias = net.layers[k][n].bias
          /\ last_call'.op = "cost" => net' = net]_vars

\* A run has written activations into a network with weights to preserve.
C13_Witness ==
    /\ RunReturned
    /\ Len(net.layers) = 3
    /\ Len(LastLayer) = 2
    /\ Len(LastLayer[1].weights) = 2
    /\ LastLayer[1].activation > 0
    /\ Len(net.layers[1]) = 2
    /\ net.layers[1][1].activation = Scale

(***************************************************************************)
(* C14: two passes of run on one Network for different images, taken node  *)
(* by node, share the activation cells.  A pass that no write of the other *)
(* pass falls into returns what it returns alone; the witness is a pass    *)
(* whose result differs from the one it returns alone.                     *)
(***************************************************************************)
\* What run returns for the image of pass p on the network as constructed.
AloneResult(p) == run(WithoutActivations(net), p - 1).result

C14_UndisturbedPassReturnsAloneResult ==
    \A p \in 1..2 :
        (passes[p].phase = "done" /\ ~passes[p].disturbed) =>
            passes[p].result = AloneResult(p)

\* A finished pass returned a vector it does not return alone.
C14_Witness ==
    \E p \in 1..2 :
        /\ passes[p].phase = "done"
        /\ passes[p].disturbed
        /\ passes[p].result.kind = "ok"
        /\ passes[p].result # AloneResult(p)

(***************************************************************************)
(* C15 as written: Network::new succeeds for every parameter combination   *)
(* that includes a zero.                                                   *)
(***************************************************************************)
C15_NewSucceedsWithZeros ==
    last_call.op = "new" => last_call.result.kind = "ok"

(***************************************************************************)
(* C15, what holds: Network::new fails only for a hidden_node_count within *)
(* 2 of usize::MAX or of more nodes than memory addresses; on every        *)
(* network built, run with a valid index returns output_node_count         *)
(* values; without hidden layers there are two layers and every output     *)
(* node has pixel_count weights; with empty hidden layers every output     *)
(* activation is f(bias).                                                  *)
(***************************************************************************)
C15_DegenerateNetworksRun ==
    /\ (last_call.op = "new" /\ last_call.result.kind # "ok") =>
          last_call.arg[3] < 0
    /\ net.built =>
          /\ Len(net.layers) = net.hidden_layer_count + 2
          /\ net.hidden_layer_count = 0 =>
                /\ Len(net.layers) = 2
                /\ \A n \in 1..Len(LastLayer) :
                      Len(LastLayer[n].weights) = net.images.pixel_count
    /\ (net.built /\ last_call.op = "run"
          /\ last_call.arg < Len(net.images.list)) =>
          /\ last_call.result.kind = "ok"
          /\ Len(last_call.result.value) = net.output_node_count
          /\ (net.hidden_node_count = 0 /\ net.hidden_layer_count >= 1) =>
                \A n \in 1..Len(LastLayer) :
                    last_call.result.value[n] = sigmoid(LastLayer[n].bias * 1000)

\* run returned on a network whose hidden layers are empty.
C15_Witness ==
    /\ RunReturned
    /\ net.hidden_layer_count = 2
    /\ net.hidden_node_count = 0
    /\ net.output_node_count = 2
    /\ net.images.pixel_count = 2

(***************************************************************************)
(* C16: the table never holds a string twice; take_string and index return *)
(* an index at which string gives the argument back; an entry never moves  *)
(* or changes; interning a string that is in the table returns its index   *)
(* and leaves the table as it is; string past the end gives "".            *)
(***************************************************************************)
NoTwoEqualStrings(table) ==
    \A i, j \in 1..Len(table) : table[i] = table[j] => i = j

Interned(table, s) == \E i \in 1..Len(table) : table[i] = s

C16_StringTableInterns ==
    [][/\ NoTwoEqualStrings(strings')
       /\ Len(strings') >= Len(strings)
       /\ \A i \in 1..Len(strings) : strings'[i] = strings[i]
       /\ table_call'.op \in {"take_string", "index"} =>
             /\ table_call'.result < Len(strings')
             /\ string(strings', table_call'.result) = table_call'.arg
             /\ Interned(strings, table_call'.arg) =>
                   /\ strings' = strings
                   /\ strings[table_call'.result + 1] = table_call'.arg
       /\ table_call'.op = "string" =>
             /\ strings' = strings
             /\ table_call'.arg >= Len(strings) => table_call'.result = ""
             /\ table_call'.arg < Len(strings) =>
                   table_call'.result = strings[table_call'.arg + 1]]_vars

\* "a", interned second of three, has just been interned again.
C16_Witness ==
    /\ Len(strings) = 3
    /\ strings[2] = "a"
    /\ table_call.op = "index"
    /\ table_call.arg = "a"
    /\ table_call.result = 1

(***************************************************************************)
(* C17: the load functions do not compare the counts of the two files.  A  *)
(* label file that declares and holds m labels and an image file that      *)
(* declares and holds n images load to Ok with n images and m labels,      *)
(* whether or not m = n.                                                   *)
(***************************************************************************)
WellFormedLabelFile(file) ==
    /\ file # NoFile
    /\ Len(file) >= 8
    /\ Field(file, 0) = LabelMagic
    /\ Field(file, 1) >= 0
    /\ Len(file) - 8 = Field(file, 1)

WellFormedImageFile(file) ==
    /\ file # NoFile
    /\ Len(file) >= 16
    /\ Field(file, 0) = ImageMagic
    /\ NonNegativeImageHeader(file)
    /\ Len(file) - 16 = Field(file, 1) * Field(file, 2) * Field(file, 3)

C17_CountsAreNotCompared ==
    (loaded # "none" /\ WellFormedLabelFile(LabelsFile)
        /\ WellFormedImageFile(ImagesFile)) =>
        /\ load_ret.kind = "ok"
        /\ Len(load_ret.value.list) = Field(ImagesFile, 1)
        /\ Len(load_ret.value.labels) = Field(LabelsFile, 1)

\* One label and two images were loaded into one dataset.
C17_Witness ==
    /\ loaded # "none"
    /\ WellFormedLabelFile(LabelsFile)
    /\ WellFormedImageFile(ImagesFile)
    /\ load_ret.kind = "ok"
    /\ Len(load_ret.value.labels) = 1
    /\ Len(load_ret.value.list) = 2

(***************************************************************************)
(* C18: when every image of the dataset has at least as many bytes as the  *)
(* input layer has nodes, what run(i) returns is what it returns on the    *)
(* network as constructed, whatever run and cost calls came before.        *)
(***************************************************************************)
EveryImageCoversInput ==
    \A i \in 1..Len(net.images.list) :
        Len(net.images.list[i]) >= Len(net.layers[1])

C18_RunResultIndependentOfHistory ==
    (RunReturned /\ EveryImageCoversInput) =>
        last_call.result = run(WithoutActivations(net), last_call.arg).result

\* run(1) returned on a network with input nodes, a hidden layer and
\* outputs, whose images all cover the input layer.
C18_Witness ==
    /\ RunReturned
    /\ EveryImageCoversInput
    /\ last_call.arg = 1
    /\ Len(net.layers[1]) = 2
    /\ net.hidden_layer_count = 1
    /\ net.hidden_node_count = 2
    /\ net.output_node_count = 2
    /\ SelectedImage = <<0, 255>>

(***************************************************************************)
(* C19: a load function reads the label file to its end before it touches  *)
(* the image file.  When the label file fails (it cannot be opened, its    *)
(* header is short, its magic number is wrong or its length does not match)*)
(* read_in_images is not called and the load returns the label file's      *)
(* error, whatever the image file holds; an error of the image file is     *)
(* returned only after the labels were read; an Ok carries the labels of   *)
(* the label file and the images of the image file.                        *)
(***************************************************************************)
C19_LabelsBeforeImages ==
    loaded # "none" =>
        /\ labels_ret = read_in_labels(LabelsFile)
        /\ labels_ret.kind # "ok" =>
              /\ images_ret = NotCalled
              /\ load_ret = labels_ret
        /\ images_ret # NotCalled =>
              /\ labels_ret.kind = "ok"
              /\ images_ret = read_in_images(ImagesFile, overflow_checks)
        /\ (labels_ret.kind = "ok" /\ images_ret.kind # "ok") =>
              load_ret = images_ret
        /\ load_ret.kind = "ok" =>
              /\ load_ret.value.labels = SubSeq(LabelsFile, 9, Len(LabelsFile))
              /\ load_ret.value.list = images_ret.value.list
              /\ load_ret.value.dimensions = images_ret.value.dimensions
              /\ load_ret.value.pixel_count = images_ret.value.pixel_count

\* The label file has the wrong magic number and the image file cannot be
\* opened: the load returned the label file's error.
C19_Witness ==
    /\ loaded # "none"
    /\ ImagesFile = NoFile
    /\ LabelsFile # NoFile
    /\ IsErrMessage(load_ret, MsgLabelMagic)
    /\ images_ret = NotCalled

(***************************************************************************)
(* C20: read_in_images reads count * rows * cols payload bytes and ignores *)
(* what follows: an image file with a valid header (the image magic number *)
(* and non-negative fields) and at least that many payload bytes gives the *)
(* dataset of the same file cut after them.  read_in_labels refuses a      *)
(* label file that holds more bytes than its header declares.              *)
(***************************************************************************)
DeclaredImageBytes(file) == Field(file, 1) * Field(file, 2) * Field(file, 3)

ValidImageHeader(file) ==
    /\ file # NoFile
    /\ Len(file) >= 16
    /\ Field(file, 0) = ImageMagic
    /\ NonNegativeImageHeader(file)

WithoutSurplus(file) == SubSeq(file, 1, 16 + DeclaredImageBytes(file))

C20_ImageSurplusIgnoredLabelSurplusRejected ==
    /\ (ImagesCalled /\ ValidImageHeader(ImagesFile)
          /\ Len(ImagesFile) - 16 >= DeclaredImageBytes(ImagesFile)) =>
          /\ images_ret.kind = "ok"
          /\ images_ret = read_in_images(WithoutSurplus(ImagesFile), overflow_checks)
          /\ Len(images_ret.value.list) = Field(ImagesFile, 1)
          /\ \A i \in 1..Len(images_ret.value.list) :
                Len(images_ret.value.list[i])
                    = Field(ImagesFile, 2) * Field(ImagesFile, 3)
    /\ (LabelsCalled /\ LabelsFile # NoFile /\ Len(LabelsFile) >= 8
          /\ Field(LabelsFile, 0) = LabelMagic /\ Field(LabelsFile, 1) >= 0
          /\ Len(LabelsFile) - 8 > Field(LabelsFile, 1)) =>
          IsErrMessage(labels_ret, MsgLabelLength)

\* An image file declaring one image of one byte and holding three was read.
C20_Witness ==
    /\ ImagesCalled
    /\ ValidImageHeader(ImagesFile)
    /\ DeclaredImageBytes(ImagesFile) = 1
    /\ Len(ImagesFile) = 16 + 3
    /\ images_ret.kind = "ok"
    /\ Len(images_ret.value.list) = 1

====
